---- MODULE Spec2Model ----
(***************************************************************************)
(* The send queue of the channel access client library (comQueSend): a    *)
(* chain of fixed-capacity comBuf buffers, the cursor pFirstUncommited    *)
(* and the counter nBytesPending, driven by the public operations of      *)
(* src/src/ca/comQueSend.h.                                                *)
(*                                                                         *)
(* push, pushComBuf, beginMsg, occupiedBytes and the typed pushes are      *)
(* translated from the header.  comBuf (comBuf.h) and the out-of-line      *)
(* members clear, commitMsg, clearUncommitted and popNextComBufToSend      *)
(* (comQueSend.cpp) are not part of the sources at hand; they are modelled *)
(* from their description in spec.md sections 3, 4.1, 4.2 and 4.8.         *)
(*                                                                         *)
(* A byte is modelled by the serial number of its push, so that the order  *)
(* and the identity of the bytes in the chain can be observed.             *)
(***************************************************************************)
EXTENDS Integers, Sequences, FiniteSets, TLC

\* ------------------------------------------------------------------ bounds
\* total number of bytes the callers push in one behaviour
MaxBytes == 6
\* largest element count given to an array push
MaxElem == 5

\* ------------------------------------------------------ program constants
\* comBuf::capacityBytes(): one compile-time value shared by every buffer,
\* a multiple of every element width (scaled down for the model)
capacityBytes == 4
\* `unsigned nBytesPending' is 32 bits wide; it is kept as two 16-bit
\* halves, value = hi * Half + lo
Half == 65536
\* sizeof of the pushed scalar types
SizeUInt16 == 2
SizeUInt32 == 4
SizeFloat32 == 4
SizeChar == 1
\* sizeof of the elements of the arrays pushed by copy_dbr_short and
\* copy_dbr_long
SizeShort == 2
SizeLong == 4

VARIABLES
    bufs,              \* tsDLList<comBuf>: Seq of [bytes, commitIndex]
    pFirstUncommited,  \* tsDLIter<comBuf>: index into bufs, 0 = not valid
    nBytesPending,     \* unsigned
    nextByte,          \* serial number of the next byte pushed
    phase,             \* "open" from a beginMsg until it is committed or
                       \* discarded, "committed" from a commitMsg until the
                       \* next beginMsg, "idle" otherwise
    orphan,            \* since the last clear, bytes were pushed while no
                       \* message was open
    atBegin,           \* nBytesPending as the last beginMsg left it
    msg,               \* bytes pushed into the open message
    committed,         \* bytes of the committed messages since the last clear
    sent,              \* bytes of the buffers popped since the last clear
    last,              \* the operation that made this state
    thr,               \* the last call of a flush threshold and its result
    req,               \* the last request insertion and its outcome
    pp,                \* a typed push in progress, statement by statement
    net                \* the interfaces, the callers of osiLocalAddr and the
                       \* call of osiSockDiscoverBroadcastAddresses

queue == <<bufs, pFirstUncommited, nBytesPending>>
vars == <<bufs, pFirstUncommited, nBytesPending, nextByte, phase, orphan,
          atBegin, msg, committed, sent, last, thr, req, pp, net>>

\* the observer's variables of the queue
notes == <<nextByte, phase, orphan, atBegin, msg, committed, sent, last>>

\* the variables the free-running queue does not use
aux == <<thr, req, pp, net>>

open == phase = "open"

\* ----------------------------------------------------------------- helpers
Min(a, b) == IF a < b THEN a ELSE b

\* unsigned arithmetic: the value n, and a - n and a + n modulo 2^32, for
\* 0 <= n < Half
U32(n) == [hi |-> n \div Half, lo |-> n % Half]

Sub32(a, n) ==
    IF a.lo >= n THEN [a EXCEPT !.lo = @ - n]
    ELSE [hi |-> (a.hi - 1) % Half, lo |-> a.lo - n + Half]

Add32(a, n) ==
    IF a.lo + n < Half THEN [a EXCEPT !.lo = @ + n]
    ELSE [hi |-> (a.hi + 1) % Half, lo |-> a.lo + n - Half]

RECURSIVE SumOffsets(_)
SumOffsets(bs) ==
    IF bs = <<>> THEN 0 ELSE Len(Head(bs).bytes) + SumOffsets(Tail(bs))

RECURSIVE SumUncommitted(_)
SumUncommitted(bs) ==
    IF bs = <<>> THEN 0
    ELSE (Len(Head(bs).bytes) - Head(bs).commitIndex) + SumUncommitted(Tail(bs))

RECURSIVE Concat(_)
Concat(bs) ==
    IF bs = <<>> THEN <<>> ELSE Head(bs).bytes \o Concat(Tail(bs))

RECURSIVE CommittedBytes(_)
CommittedBytes(bs) ==
    IF bs = <<>> THEN <<>>
    ELSE SubSeq(Head(bs).bytes, 1, Head(bs).commitIndex)
            \o CommittedBytes(Tail(bs))

\* the bytes nextByte .. nextByte + n - 1
Fresh(n) == [i \in 1..n |-> nextByte + i - 1]

\* --------------------------------------------------------------- comBuf
\* a newly constructed buffer
NewComBuf == [bytes |-> <<>>, commitIndex |-> 0]

\* comBuf::push ( const T * pVal, unsigned nElem ): the number of whole
\* elements of width w accepted
ComBufAccepts(cb, w, nElem) ==
    Min(nElem, (capacityBytes - Len(cb.bytes)) \div w)

\* comBuf::push ( const T * pVal, unsigned nElem ): the buffer afterwards
ComBufPush(cb, val, w) ==
    LET n == ComBufAccepts(cb, w, Len(val) \div w)
    IN  [cb EXCEPT !.bytes = @ \o SubSeq(val, 1, n * w)]

\* comBuf::push ( const T & val ): whether the scalar fits
ComBufFits(cb, w) == Len(cb.bytes) + w <= capacityBytes

\* -------------------------------------------------------------- comQueSend
\* a queue value: the three members of the class
Q(b, p, n) == [bufs |-> b, pFirstUncommited |-> p, nBytesPending |-> n]

\* pushComBuf, had it counted the bytes of the buffer it links
pushComBuf_counting(q, cb) ==
    LET b == Append(q.bufs, cb)
    IN  Q(b,
          IF q.pFirstUncommited = 0 THEN Len(b) ELSE q.pFirstUncommited,
          Add32(q.nBytesPending, Len(cb.bytes)))

\* pushComBuf, had it linked the buffer at the head of the list
pushComBuf_front(q, cb) ==
    LET b == <<cb>> \o q.bufs
    IN  Q(b,
          IF q.pFirstUncommited = 0 THEN Len(b) ELSE q.pFirstUncommited,
          q.nBytesPending)

\* comQueSend::pushComBuf
pushComBuf(q, cb) ==
    LET b == Append(q.bufs, cb)
    IN  Q(b,
          IF q.pFirstUncommited = 0 THEN Len(b) ELSE q.pFirstUncommited,
          q.nBytesPending)

\* the loop of push, had each new buffer been given one element only
RECURSIVE pushLoop_oneEach(_, _, _)
pushLoop_oneEach(q, val, w) ==
    IF Len(val) \div w > 0
    THEN pushLoop_oneEach(
             pushComBuf(q, [NewComBuf EXCEPT !.bytes = SubSeq(val, 1, w)]),
             SubSeq(val, w + 1, Len(val)), w)
    ELSE q

\* the while loop of comQueSend::push ( const T *, unsigned )
RECURSIVE pushLoop(_, _, _)
pushLoop(q, val, w) ==
    IF Len(val) \div w > 0
    THEN LET pComBuf == ComBufPush(NewComBuf, val, w)
             nNew == ComBufAccepts(NewComBuf, w, Len(val) \div w)
         IN  pushLoop(pushComBuf(q, pComBuf),
                      SubSeq(val, nNew * w + 1, Len(val)), w)
    ELSE q

\* comQueSend::push ( const T * pVal, const unsigned nElem )
pushArray(q, val, w) ==
    IF q.bufs # <<>>
    THEN LET k == Len(q.bufs)
             pLastBuf == q.bufs[k]
             nCopied == ComBufAccepts(pLastBuf, w, Len(val) \div w)
         IN  pushLoop([q EXCEPT !.bufs[k] = ComBufPush(pLastBuf, val, w)],
                      SubSeq(val, nCopied * w + 1, Len(val)), w)
    ELSE pushLoop(q, val, w)

\* the scalar push, had it marked the tail it wrote into as first uncommitted
pushScalar_marks(q, val) ==
    LET k == Len(q.bufs)
        w == Len(val)
    IN  IF k > 0 /\ ComBufFits(q.bufs[k], w)
        THEN [q EXCEPT !.bufs[k].bytes = @ \o val,
                       !.pFirstUncommited = IF @ = 0 THEN k ELSE @]
        ELSE pushComBuf(q, [NewComBuf EXCEPT !.bytes = val])

\* the scalar push, had it pushed the value as an array of its bytes
pushScalar_split(q, val) == pushArray(q, val, SizeChar)

\* comQueSend::push ( const T & val )
pushScalar(q, val) ==
    LET k == Len(q.bufs)
        w == Len(val)
    IN  IF k > 0 /\ ComBufFits(q.bufs[k], w)
        THEN [q EXCEPT !.bufs[k].bytes = @ \o val]
        ELSE pushComBuf(q, [NewComBuf EXCEPT !.bytes = val])

\* comQueSend::clearUncommitted
RECURSIVE Truncated(_)
Truncated(bs) ==
    IF bs = <<>> THEN <<>>
    ELSE LET cb == Head(bs)
         IN  (IF cb.commitIndex = 0 THEN <<>>
              ELSE << [cb EXCEPT !.bytes = SubSeq(@, 1, cb.commitIndex)] >>)
                \o Truncated(Tail(bs))

clearUncommitted(q) ==
    Q(Truncated(q.bufs), 0,
      Sub32(q.nBytesPending, SumUncommitted(q.bufs)))

\* beginMsg without the call of clearUncommitted
beginMsg_noClear(q) == [q EXCEPT !.pFirstUncommited = Len(q.bufs)]

\* beginMsg, had it not set the cursor after clearUncommitted
beginMsg_keepCursor(q) ==
    IF q.pFirstUncommited # 0 THEN clearUncommitted(q)
    ELSE [q EXCEPT !.pFirstUncommited = Len(q.bufs)]

\* beginMsg, had it unlinked every buffer from the cursor on
beginMsg_dropBuffers(q) ==
    LET c == IF q.pFirstUncommited # 0
             THEN Q(SubSeq(q.bufs, 1, q.pFirstUncommited - 1), 0,
                    Sub32(q.nBytesPending, SumUncommitted(q.bufs)))
             ELSE q
    IN  [c EXCEPT !.pFirstUncommited = Len(c.bufs)]

\* comQueSend::beginMsg
beginMsg(q) ==
    LET c == IF q.pFirstUncommited # 0 THEN clearUncommitted(q) ELSE q
    IN  [c EXCEPT !.pFirstUncommited = Len(c.bufs)]

\* comQueSend::commitMsg
commitMsg(q) ==
    Q([i \in 1..Len(q.bufs) |->
          [q.bufs[i] EXCEPT !.commitIndex = Len(q.bufs[i].bytes)]],
      0, q.nBytesPending)

\* comQueSend::clear, had it left nBytesPending alone
clear_keepCount(q) == Q(<<>>, 0, q.nBytesPending)

\* comQueSend::clear
clear(q) == Q(<<>>, 0, U32(0))

\* comQueSend::popNextComBufToSend: the queue afterwards
popNextComBufToSend(q) ==
    LET c == clearUncommitted(q)
    IN  IF c.bufs = <<>> THEN c
        ELSE Q(Tail(c.bufs), 0,
               Sub32(c.nBytesPending, Len(Head(c.bufs).bytes)))

\* comQueSend::popNextComBufToSend: the bytes of the returned buffer,
\* none for the null pointer (a chained buffer is never empty)
Popped(q) ==
    LET c == clearUncommitted(q)
    IN  IF c.bufs = <<>> THEN <<>> ELSE Head(c.bufs).bytes

\* comQueSend::occupiedBytes
occupiedBytes == nBytesPending

\* ------------------------------------------------------------------ state
Cur == Q(bufs, pFirstUncommited, nBytesPending)

Set(q) ==
    /\ bufs' = q.bufs
    /\ pFirstUncommited' = q.pFirstUncommited
    /\ nBytesPending' = q.nBytesPending

\* the observer's note of the operation just made: its name, the number of
\* bytes given to it and the width of its elements, and the buffers linked
\* and the bytes discarded by it
Did(op, n, w) ==
    last' = [op |-> op, n |-> n, w |-> w,
             made |-> IF Len(bufs') > Len(bufs) THEN Len(bufs') - Len(bufs)
                      ELSE 0,
             dropped |-> IF op = "pop"
                            \/ (op = "beginMsg" /\ pFirstUncommited # 0)
                         THEN SumUncommitted(bufs) ELSE 0]

AuxIdle ==
    /\ thr = [op |-> "none"]
    /\ req = [op |-> "none"]
    /\ pp = [pc |-> "none"]
    /\ net = [pc |-> "none"]

Init ==
    /\ bufs = <<>>
    /\ pFirstUncommited = 0
    /\ nBytesPending = U32(0)
    /\ nextByte = 1
    /\ phase = "idle"
    /\ orphan = FALSE
    /\ atBegin = U32(0)
    /\ msg = <<>>
    /\ committed = <<>>
    /\ sent = <<>>
    /\ last = [op |-> "init", n |-> 0, w |-> 0, made |-> 0, dropped |-> 0]
    /\ AuxIdle

\* a typed push of n bytes has been made: the bookkeeping of the observer
Pushed(n) ==
    /\ nextByte' = nextByte + n
    /\ msg' = IF open THEN msg \o Fresh(n) ELSE msg
    /\ orphan' = (orphan \/ (~open /\ n > 0))
    /\ UNCHANGED <<phase, atBegin, committed, sent>>

PushScalarOp(op, w) ==
    /\ nextByte + w - 1 <= MaxBytes
    /\ Set(pushScalar(Cur, Fresh(w)))
    /\ Pushed(w)
    /\ Did(op, w, w)
    /\ UNCHANGED aux

PushUInt16 == PushScalarOp("pushUInt16", SizeUInt16)

PushUInt32 == PushScalarOp("pushUInt32", SizeUInt32)

PushFloat32 == PushScalarOp("pushFloat32", SizeFloat32)

PushArrayOp(op, w, nElem) ==
    /\ nextByte + nElem * w - 1 <= MaxBytes
    /\ Set(pushArray(Cur, Fresh(nElem * w), w))
    /\ Pushed(nElem * w)
    /\ Did(op, nElem * w, w)
    /\ UNCHANGED aux

PushString ==
    \E nChar \in 0..MaxElem : PushArrayOp("pushString", SizeChar, nChar)

\* comQueSend::push_dbr_type with the type code of a short or of a long
\* array: copy_dbr_short and copy_dbr_long give the array to push
Push_dbr_type ==
    \E w \in {SizeShort, SizeLong} :
        \E nElem \in 0..MaxElem : PushArrayOp("push_dbr_type", w, nElem)

BeginMsg ==
    /\ Set(beginMsg(Cur))
    /\ phase' = "open"
    /\ msg' = <<>>
    /\ atBegin' = nBytesPending'
    /\ UNCHANGED <<nextByte, orphan, committed, sent>>
    /\ Did("beginMsg", 0, 0)
    /\ UNCHANGED aux

CommitMsg ==
    /\ Set(commitMsg(Cur))
    /\ phase' = "committed"
    /\ msg' = <<>>
    /\ committed' = IF open THEN committed \o msg ELSE committed
    /\ UNCHANGED <<nextByte, orphan, atBegin, sent>>
    /\ Did("commitMsg", 0, 0)
    /\ UNCHANGED aux

Clear ==
    /\ Set(clear(Cur))
    /\ phase' = IF open THEN "idle" ELSE phase
    /\ orphan' = FALSE
    /\ msg' = <<>>
    /\ committed' = <<>>
    /\ sent' = <<>>
    /\ UNCHANGED <<nextByte, atBegin>>
    /\ Did("clear", 0, 0)
    /\ UNCHANGED aux

PopNextComBufToSend ==
    /\ Set(popNextComBufToSend(Cur))
    /\ phase' = IF open THEN "idle" ELSE phase
    /\ msg' = <<>>
    /\ sent' = sent \o Popped(Cur)
    /\ UNCHANGED <<nextByte, orphan, atBegin, committed>>
    /\ Did("pop", Len(Popped(Cur)), 0)
    /\ UNCHANGED aux

Next ==
    \/ PushUInt16
    \/ PushUInt32
    \/ PushFloat32
    \/ PushString
    \/ Push_dbr_type
    \/ BeginMsg
    \/ CommitMsg
    \/ Clear
    \/ PopNextComBufToSend

Spec == Init /\ [][Next]_vars

TypeOK ==
    /\ \A i \in 1..Len(bufs) :
          /\ Len(bufs[i].bytes) <= capacityBytes
          /\ bufs[i].commitIndex <= Len(bufs[i].bytes)
    /\ pFirstUncommited \in 0..Len(bufs)
    /\ nBytesPending.hi \in 0..(Half - 1)
    /\ nBytesPending.lo \in 0..(Half - 1)

\* ----------------------------------------------------------------- claims
ScalarPush == PushUInt16 \/ PushUInt32 \/ PushFloat32

ArrayPush == PushString \/ Push_dbr_type

TypedPush == ScalarPush \/ PushString

IsScalarPush(op) == op \in {"pushUInt16", "pushUInt32", "pushFloat32"}

IsArrayPush(op) == op \in {"pushString", "push_dbr_type"}

Increasing(s) == \A i \in 1..(Len(s) - 1) : s[i] < s[i + 1]

Range(s) == {s[i] : i \in 1..Len(s)}

Ceil(a, b) == (a + b - 1) \div b

\* the bytes a step removes from the chain without handing them to the caller
Removed == Range(Concat(bufs)) \ Range(Concat(bufs'))

\* the chain holds no byte written past a buffer's committed offset
AllCommitted(bs) == SumUncommitted(bs) = 0

C4_PushOrder ==
    /\ Increasing(sent \o Concat(bufs))
    /\ ~orphan => \E k \in 0..Len(committed) : sent = SubSeq(committed, 1, k)

C4_Witness ==
    /\ Len(sent) >= capacityBytes
    /\ bufs # <<>>
    /\ ~orphan
    /\ \E i \in 1..(Len(sent) - 1) : sent[i + 1] > sent[i] + 1

\* the written bytes of every buffer of a chain, buffer by buffer
Contents(bs) == [i \in 1..Len(bs) |-> bs[i].bytes]

\* C5 (as stated): a beginMsg made while a message is open removes exactly the
\* bytes pushed into that message, keeps the committed bytes, and sets the
\* cursor at the tail of the chain.
C5_BeginDiscardsOpenMessage ==
    [][(BeginMsg /\ open) =>
          /\ Removed = Range(msg)
          /\ CommittedBytes(bufs') = CommittedBytes(bufs)
          /\ pFirstUncommited' = Len(bufs')]_vars

\* C5 (amended): the same, when every typed push since the last clear was
\* made while a message was open; the chain then holds, past the committed
\* offsets, the bytes of the one open message and no others.
C5_BeginDiscardsOpenMessageFramed ==
    /\ [][(BeginMsg /\ open /\ ~orphan) =>
             /\ Removed = Range(msg)
             /\ CommittedBytes(bufs') = CommittedBytes(bufs)
             /\ pFirstUncommited' = Len(bufs')]_vars
    /\ [](~orphan =>
             Range(Concat(bufs)) \ Range(CommittedBytes(bufs)) =
                 IF open THEN Range(msg) ELSE {})

C5_Witness ==
    /\ last.op = "beginMsg" /\ last.dropped > 0 /\ ~orphan
    /\ bufs # <<>> /\ pFirstUncommited = Len(bufs)

\* C6 (as stated): from a commitMsg until the next beginMsg the cursor is not
\* valid, and it is not valid while the chain is empty.
C6_CursorInvalidUntilBegin ==
    /\ phase = "committed" => pFirstUncommited = 0
    /\ bufs = <<>> => pFirstUncommited = 0

\* C6 (amended): commitMsg leaves the cursor not valid, and it stays so until
\* the next beginMsg or the next typed push that links a new buffer; it is
\* not valid while the chain is empty.
C6_CursorInvalidUntilBeginOrLink ==
    /\ [](bufs = <<>> => pFirstUncommited = 0)
    /\ [][CommitMsg => pFirstUncommited' = 0]_vars
    /\ [][(phase = "committed" /\ phase' = "committed"
             /\ pFirstUncommited = 0 /\ last'.made = 0) =>
                pFirstUncommited' = 0]_vars

C6_Witness ==
    /\ phase = "committed" /\ IsScalarPush(last.op) /\ last.made = 0
    /\ pFirstUncommited = 0 /\ ~AllCommitted(bufs)

\* C7 (as stated): a beginMsg that follows a beginMsg directly changes neither
\* the chain nor the count nor the cursor.
C7_BeginIdempotent ==
    [][(last.op = "beginMsg" /\ BeginMsg) => UNCHANGED queue]_vars

\* C7 (amended): a beginMsg that follows a beginMsg directly changes nothing
\* when the first one left no byte past the committed offsets, as it does
\* from every state whose cursor is valid or whose chain is all committed.
C7_BeginIdempotentCommitted ==
    [][(last.op = "beginMsg" /\ AllCommitted(bufs) /\ BeginMsg) =>
          UNCHANGED queue]_vars

C7_Witness ==
    /\ last.op = "beginMsg" /\ last.dropped > 0
    /\ bufs # <<>> /\ pFirstUncommited = Len(bufs) /\ AllCommitted(bufs)

\* C8: commitMsg changes neither the buffers of the chain, their contents and
\* written offsets, nor the count; a byte of a committed message stays in the
\* chain, below the committed offset, until a pop hands it to the caller.
C8_CommitFrame ==
    /\ [][CommitMsg =>
             /\ Contents(bufs') = Contents(bufs)
             /\ nBytesPending' = nBytesPending]_vars
    /\ [](Range(committed) \subseteq Range(sent \o CommittedBytes(bufs)))

C8_Witness ==
    /\ committed # <<>> /\ sent = <<>>
    /\ last.op = "beginMsg" /\ last.dropped > 0
    /\ Len(bufs) > 1

\* C9: a scalar push writes the whole value into one buffer: into the tail
\* when the tail can hold it, else into a new buffer linked after the
\* unchanged tail.
C9_ScalarNotSplit ==
    [][ScalarPush =>
          LET k == Len(bufs)
              val == Fresh(last'.n)
          IN  IF k > 0 /\ Len(bufs[k].bytes) + last'.n <= capacityBytes
              THEN bufs' = [bufs EXCEPT ![k].bytes = @ \o val]
              ELSE /\ Len(bufs') = k + 1
                   /\ SubSeq(bufs', 1, k) = bufs
                   /\ bufs'[k + 1].bytes = val]_vars

C9_Witness ==
    /\ IsScalarPush(last.op) /\ last.made = 1
    /\ Len(bufs) > 1
    /\ Len(bufs[Len(bufs) - 1].bytes) < capacityBytes

\* C10: an array push into an empty chain links ceil(bytes / capacity)
\* buffers, and no written offset is ever above the capacity.
C10_BufferCount ==
    /\ [][(ArrayPush /\ bufs = <<>>) =>
             Len(bufs') = Ceil(last'.n, capacityBytes)]_vars
    /\ [](\A i \in 1..Len(bufs) : Len(bufs[i].bytes) <= capacityBytes)

C10_Witness ==
    /\ IsArrayPush(last.op) /\ last.made = 2 /\ Len(bufs) = 2
    /\ last.w > 1

\* ------------------------------------------------- the flush thresholds
\* a + b modulo 2^32, for two unsigned values
Plus32(a, b) ==
    LET lo == a.lo + b.lo
    IN  [hi |-> (a.hi + b.hi + lo \div Half) % Half, lo |-> lo % Half]

\* a > k, for an unsigned a and 0 <= k < Half
Above32(a, k) == a.hi > 0 \/ a.lo > k

\* comQueSend::flushBlockThreshold
flushBlockThreshold(q, nBytesThisMsg) ==
    Above32(Plus32(q.nBytesPending, nBytesThisMsg), 16 * capacityBytes)

\* comQueSend::flushEarlyThreshold
flushEarlyThreshold(q, nBytesThisMsg) ==
    Above32(Plus32(q.nBytesPending, nBytesThisMsg), 4 * capacityBytes)

\* the unsigned values taken for nBytesPending and for nBytesThisMsg: the
\* values around both limits, and the largest ones of the type
Samples ==
    {U32(n) : n \in {0, 1, 4 * capacityBytes - 1, 4 * capacityBytes,
                     4 * capacityBytes + 1, 16 * capacityBytes - 1,
                     16 * capacityBytes, 16 * capacityBytes + 1}}
        \cup {[hi |-> Half \div 2, lo |-> 0],
              [hi |-> Half - 1, lo |-> Half - 4 * capacityBytes],
              [hi |-> Half - 1, lo |-> Half - 1]}

InitFlush ==
    /\ bufs = <<>>
    /\ pFirstUncommited = 0
    /\ nBytesPending \in Samples
    /\ nextByte = 1
    /\ phase = "idle"
    /\ orphan = FALSE
    /\ atBegin = U32(0)
    /\ msg = <<>>
    /\ committed = <<>>
    /\ sent = <<>>
    /\ last = [op |-> "init", n |-> 0, w |-> 0, made |-> 0, dropped |-> 0]
    /\ AuxIdle

FlushEarlyThreshold ==
    \E n \in Samples :
        /\ thr' = [op |-> "flushEarlyThreshold", n |-> n,
                   result |-> flushEarlyThreshold(Cur, n)]
        /\ UNCHANGED <<queue, notes, req, pp, net>>

FlushBlockThreshold ==
    \E n \in Samples :
        /\ thr' = [op |-> "flushBlockThreshold", n |-> n,
                   result |-> flushBlockThreshold(Cur, n)]
        /\ UNCHANGED <<queue, notes, req, pp, net>>

NextFlush == FlushEarlyThreshold \/ FlushBlockThreshold

SpecFlush == InitFlush /\ [][NextFlush]_vars

\* the sum of two unsigned values, not reduced modulo 2^32, is above k
SumExceeds(a, b, k) == a.hi + b.hi > 0 \/ a.lo + b.lo > k

\* C11: flushEarlyThreshold is true exactly when pending + nBytesThisMsg is
\* above 4 capacities, flushBlockThreshold exactly when it is above 16
\* capacities, for every pair of unsigned values, and neither changes the
\* queue.
C11_ThresholdsExact ==
    /\ thr.op = "flushEarlyThreshold" =>
          thr.result = SumExceeds(nBytesPending, thr.n, 4 * capacityBytes)
    /\ thr.op = "flushBlockThreshold" =>
          thr.result = SumExceeds(nBytesPending, thr.n, 16 * capacityBytes)
    /\ bufs = <<>> /\ pFirstUncommited = 0

\* ------------------------------------------------ request composition
\* the number of entries of dbrCopyVector
DbrTableSize == 39

\* sizeof of the elements pushed by copy_dbr_double, and the characters of
\* one element pushed by copy_dbr_string
SizeDouble == 8
SizeString == 40

\* the unit a payload is padded to
Alignment == 8

\* the largest value of a 16-bit field of the compact header
CompactMax == 65535

\* the bytes spent on the requests of one behaviour
MaxReqBytes == 24

\* dbrCopyVector: the copy routine of each type code, "null" for a code
\* without one
dbrCopyVector ==
    [t \in 0..(DbrTableSize - 1) |->
        CASE t = 0 -> "copy_dbr_string"
          [] t \in {1, 3} -> "copy_dbr_short"
          [] t = 2 -> "copy_dbr_float"
          [] t = 4 -> "copy_dbr_char"
          [] t = 5 -> "copy_dbr_long"
          [] t = 6 -> "copy_dbr_double"
          [] OTHER -> "null"]

\* the bytes of one element, and the width of the units the routine pushes
ElemBytes(f) ==
    CASE f = "copy_dbr_string" -> SizeString
      [] f = "copy_dbr_short" -> SizeShort
      [] f = "copy_dbr_float" -> SizeFloat32
      [] f = "copy_dbr_char" -> SizeChar
      [] f = "copy_dbr_long" -> SizeLong
      [] f = "copy_dbr_double" -> SizeDouble
      [] OTHER -> 0

PushWidth(f) == IF f = "copy_dbr_string" THEN SizeChar ELSE ElemBytes(f)

\* dbr_type_ok, had it compared with > instead of >=
dbr_type_ok_above(type) ==
    IF type > DbrTableSize THEN FALSE
    ELSE IF type < DbrTableSize /\ dbrCopyVector[type] = "null" THEN FALSE
    ELSE TRUE

\* comQueSend::dbr_type_ok
dbr_type_ok(type) ==
    IF type >= DbrTableSize THEN FALSE
    ELSE IF dbrCopyVector[type] = "null" THEN FALSE
    ELSE TRUE

\* the entry push_dbr_type calls: reading dbrCopyVector past its end, or
\* calling a null entry, is undefined
Entry(type) ==
    IF type < DbrTableSize /\ dbrCopyVector[type] # "null"
    THEN dbrCopyVector[type] ELSE "undefined"

\* the bytes from, from + 1, ... of n bytes
Ids(from, n) == [i \in 1..n |-> from + i - 1]

\* a run of scalar pushes of the given widths, the first byte being `from'
RECURSIVE pushScalars(_, _, _)
pushScalars(q, widths, from) ==
    IF widths = <<>> THEN q
    ELSE pushScalars(pushScalar(q, Ids(from, Head(widths))), Tail(widths),
                     from + Head(widths))

RECURSIVE Sum(_)
Sum(ws) == IF ws = <<>> THEN 0 ELSE Head(ws) + Sum(Tail(ws))

\* the fields of the compact header, and those of the extended header
CompactFields ==
    <<SizeUInt16, SizeUInt16, SizeUInt16, SizeUInt16, SizeUInt32, SizeUInt32>>

ExtendedFields == CompactFields \o <<SizeUInt32, SizeUInt32>>

\* comQueSend::insertRequestHeader: the fields it pushes, <<>> when it throws
\* cacChannel::outOfBounds
HeaderFields(payloadSize, nElem, v49Ok) ==
    IF payloadSize <= CompactMax /\ nElem <= CompactMax THEN CompactFields
    ELSE IF v49Ok THEN ExtendedFields
    ELSE <<>>

Padded(size) == ((size + Alignment - 1) \div Alignment) * Alignment

\* insertRequestWithPayLoad, had it pushed the payload before the header
RequestPlan_payloadFirst(dataType, nElem, v49Ok) ==
    IF ~dbr_type_ok(dataType)
    THEN [status |-> "badType", fields |-> <<>>, w |-> 0, payload |-> 0,
          pad |-> 0, indexed |-> -1]
    ELSE LET f == Entry(dataType)
             size == nElem * ElemBytes(f)
             fields == HeaderFields(Padded(size), nElem, v49Ok)
         IN  [status |-> IF f = "undefined" THEN "undefined"
                         ELSE IF fields = <<>> THEN "outOfBounds" ELSE "ok",
              fields |-> fields,
              w |-> IF f = "undefined" THEN 1 ELSE PushWidth(f),
              payload |-> IF f = "undefined" THEN 0 ELSE Min(size, Alignment),
              pad |-> 0,
              indexed |-> dataType]

\* comQueSend::insertRequestWithPayLoad: its outcome, the header fields, the
\* payload bytes and their width, the padding it pushes, and the type code
\* dbrCopyVector is indexed with (-1: not indexed)
RequestPlan(dataType, nElem, v49Ok) ==
    IF ~dbr_type_ok(dataType)
    THEN [status |-> "badType", fields |-> <<>>, w |-> 0, payload |-> 0,
          pad |-> 0, indexed |-> -1]
    ELSE LET f == Entry(dataType)
             size == nElem * ElemBytes(f)
             fields == HeaderFields(Padded(size), nElem, v49Ok)
         IN  IF fields = <<>>
             THEN [status |-> "outOfBounds", fields |-> <<>>, w |-> 0,
                   payload |-> 0, pad |-> 0, indexed |-> -1]
             ELSE [status |-> IF f = "undefined" THEN "undefined" ELSE "ok",
                   fields |-> fields,
                   w |-> IF f = "undefined" THEN 1 ELSE PushWidth(f),
                   payload |-> IF f = "undefined" THEN 0 ELSE size,
                   pad |-> Padded(size) - size,
                   indexed |-> dataType]

\* the queue after the pushes of a plan, the first byte being `from'
insertRequest(q, plan, from) ==
    LET h == Sum(plan.fields)
        q1 == pushScalars(q, plan.fields, from)
        q2 == IF plan.payload > 0
              THEN pushArray(q1, Ids(from + h, plan.payload), plan.w)
              ELSE q1
    IN  IF plan.pad > 0
        THEN pushArray(q2, Ids(from + h + plan.payload, plan.pad), SizeChar)
        ELSE q2

PlanBytes(plan) == Sum(plan.fields) + plan.payload + plan.pad

\* the type codes, element counts and payload sizes the callers give
TypeSamples == {4, 5, 7, DbrTableSize - 1, DbrTableSize, CompactMax}

ElemSamples == {0, 1, (CompactMax + 1) \div SizeLong, CompactMax + 1}

SizeSamples == {0, Alignment, CompactMax + 1}

InsertRequestHeader ==
    \E payloadSize \in SizeSamples, nElem \in ElemSamples, v49Ok \in BOOLEAN :
        LET fields == HeaderFields(payloadSize, nElem, v49Ok)
            n == Sum(fields)
        IN  /\ nextByte + n - 1 <= MaxReqBytes
            /\ Set(pushScalars(Cur, fields, nextByte))
            /\ Pushed(n)
            /\ Did("insertRequestHeader", n, 0)
            /\ req' = [op |-> "insertRequestHeader", dataType |-> 0,
                       nElem |-> nElem, payloadSize |-> payloadSize,
                       v49Ok |-> v49Ok, indexed |-> -1,
                       status |-> IF fields = <<>> THEN "outOfBounds"
                                  ELSE "ok"]
            /\ UNCHANGED <<thr, pp, net>>

InsertRequestWithPayLoad ==
    \E dataType \in TypeSamples, nElem \in ElemSamples, v49Ok \in BOOLEAN :
        LET plan == RequestPlan(dataType, nElem, v49Ok)
            n == PlanBytes(plan)
        IN  /\ nextByte + n - 1 <= MaxReqBytes
            /\ Set(insertRequest(Cur, plan, nextByte))
            /\ Pushed(n)
            /\ Did("insertRequestWithPayLoad", n, plan.w)
            /\ req' = [op |-> "insertRequestWithPayLoad",
                       dataType |-> dataType, nElem |-> nElem,
                       payloadSize |->
                           Padded(nElem * ElemBytes(Entry(dataType))),
                       v49Ok |-> v49Ok, indexed |-> plan.indexed,
                       status |-> plan.status]
            /\ UNCHANGED <<thr, pp, net>>

NextReq ==
    \/ InsertRequestHeader
    \/ InsertRequestWithPayLoad
    \/ BeginMsg
    \/ CommitMsg
    \/ PopNextComBufToSend

SpecReq == Init /\ [][NextReq]_vars

\* a type code that is past the end of dbrCopyVector or has no copy routine
Rejected(type) == type >= DbrTableSize \/ dbrCopyVector[type] = "null"

\* C12: insertRequestWithPayLoad with a type code that is >= 39 or has a null
\* table entry fails with badType before any byte is written, the chain and
\* occupiedBytes() are unchanged, and dbrCopyVector is never indexed with a
\* code dbr_type_ok rejects.
C12_BadTypeBeforeAnyByte ==
    /\ [](req.op = "insertRequestWithPayLoad" /\ req.indexed # -1
            => ~Rejected(req.indexed))
    /\ [][last'.op = "insertRequestWithPayLoad" /\ Rejected(req'.dataType) =>
            /\ req'.status = "badType"
            /\ UNCHANGED queue
            /\ occupiedBytes' = occupiedBytes
            /\ Concat(bufs') = Concat(bufs)]_vars

C12_Witness ==
    /\ req.op = "insertRequestWithPayLoad"
    /\ req.dataType = DbrTableSize
    /\ req.status = "badType"
    /\ last.op = "insertRequestWithPayLoad"
    /\ bufs # <<>>

\* the header cannot carry the payload size or the element count
OutOfBounds(payloadSize, nElem, v49Ok) ==
    (payloadSize > CompactMax \/ nElem > CompactMax) /\ ~v49Ok

\* C13: insertRequestHeader, and insertRequestWithPayLoad with an accepted
\* type code, given a payload size or an element count above the 16-bit
\* limit of the compact header with extended headers disallowed, fail with
\* outOfBounds and write nothing: no header byte, no payload byte, the queue
\* unchanged.
C13_OutOfBoundsWritesNothing ==
    [][last'.op \in {"insertRequestHeader", "insertRequestWithPayLoad"}
       /\ req'.status # "badType"
       /\ OutOfBounds(req'.payloadSize, req'.nElem, req'.v49Ok) =>
            /\ req'.status = "outOfBounds"
            /\ last'.n = 0
            /\ UNCHANGED queue
            /\ nextByte' = nextByte]_vars

C13_Witness ==
    /\ req.op = "insertRequestWithPayLoad"
    /\ req.status = "outOfBounds"
    /\ req.nElem <= CompactMax /\ req.payloadSize > CompactMax
    /\ last.op = "insertRequestWithPayLoad"
    /\ bufs # <<>>

\* ---------------------------------------------------------------- clear
\* C15: from every reachable state clear() leaves no buffer in the chain,
\* a pending-byte count of zero and an invalid cursor, so that the
\* popNextComBufToSend made next returns the null pointer and
\* occupiedBytes() returns 0, before and after it.
C15_ClearEmptiesQueue ==
    [][last'.op = "clear" =>
          /\ bufs' = <<>>
          /\ pFirstUncommited' = 0
          /\ occupiedBytes' = U32(0)
          /\ Popped(Cur') = <<>>
          /\ popNextComBufToSend(Cur').bufs = <<>>
          /\ popNextComBufToSend(Cur').nBytesPending = U32(0)]_vars

C15_Witness ==
    /\ last.op = "clear"
    /\ phase = "committed"
    /\ nextByte > capacityBytes + 1
    /\ bufs = <<>>

\* ------------------------------------------ push, one statement at a time
\* the bytes spent on the pushes of one behaviour
MaxPushBytes == 9

\* the widths of the elements pushed: char, short and long
Widths == {SizeChar, SizeShort, SizeLong}

\* whether a push is under way, and whether it is at the head of its loop
Pushing == pp.pc \in {"loop", "fill", "link"}

\* the queue states a push is called in: the constructed queue, a queue
\* with an open message of r characters, and one with that message committed
InitPush ==
    /\ \E r \in 0..capacityBytes, isCommitted \in BOOLEAN :
          LET bytes == [i \in 1..r |-> i]
          IN  /\ r = 0 => ~isCommitted
              /\ bufs = IF r = 0 THEN <<>>
                        ELSE <<[bytes |-> bytes,
                                commitIndex |-> IF isCommitted THEN r
                                                ELSE 0]>>
              /\ pFirstUncommited = IF r = 0 \/ isCommitted THEN 0 ELSE 1
              /\ nextByte = r + 1
              /\ phase = IF r = 0 THEN "idle"
                         ELSE IF isCommitted THEN "committed" ELSE "open"
              /\ msg = IF isCommitted THEN <<>> ELSE bytes
              /\ committed = IF isCommitted THEN bytes ELSE <<>>
              /\ last = IF r = 0
                        THEN [op |-> "none", n |-> 0, w |-> 0, made |-> 0,
                              dropped |-> 0]
                        ELSE IF isCommitted
                        THEN [op |-> "commitMsg", n |-> 0, w |-> 0,
                              made |-> 0, dropped |-> 0]
                        ELSE [op |-> "pushString", n |-> r, w |-> SizeChar,
                              made |-> 1, dropped |-> 0]
    /\ nBytesPending = U32(0)
    /\ orphan = FALSE
    /\ atBegin = U32(0)
    /\ sent = <<>>
    /\ AuxIdle

\* the observer's notes are not kept while a push is followed statement by
\* statement, but for the bytes given out
Reserve(n) ==
    /\ nextByte' = nextByte + n
    /\ UNCHANGED <<phase, orphan, atBegin, msg, committed, sent, last>>

\* lines 93-100 of the array push: the tail takes the elements it has room for
topUp(q, val, w) ==
    IF q.bufs # <<>>
    THEN [q EXCEPT !.bufs[Len(q.bufs)] = ComBufPush(@, val, w)]
    ELSE q

nTopUp(q, w, nElem) ==
    IF q.bufs # <<>> THEN ComBufAccepts(q.bufs[Len(q.bufs)], w, nElem)
    ELSE 0

\* the new buffer, had it been given the elements from the start of pVal
fillNew_restart(val, w, nCopied) == ComBufPush(NewComBuf, val, w)

\* lines 103-104: the new buffer is given the elements from pVal[nCopied]
fillNew(val, w, nCopied) ==
    ComBufPush(NewComBuf, SubSeq(val, nCopied * w + 1, Len(val)), w)

\* the count of the loop, had it not been advanced
advance_stuck(nCopied, nNew) == nCopied

\* line 105: nCopied += nNew
advance(nCopied, nNew) == nCopied + nNew

\* comQueSend::push ( const T * pVal, const unsigned nElem ), to the head of
\* its loop
PushArrayCall ==
    \E w \in Widths, nElem \in 0..MaxPushBytes :
        /\ pp.pc = "none"
        /\ nextByte + w * nElem - 1 <= MaxPushBytes
        /\ Set(topUp(Cur, Fresh(w * nElem), w))
        /\ pp' = [pc |-> "loop", kind |-> "array", w |-> w,
                  val |-> Fresh(w * nElem), nElem |-> nElem,
                  nCopied |-> nTopUp(Cur, w, nElem),
                  pComBuf |-> NewComBuf, allocated |-> 0, linked |-> 0,
                  entry |-> Cur]
        /\ Reserve(w * nElem)
        /\ UNCHANGED <<thr, req, net>>

\* comQueSend::push ( const T & val ), to its return or to its new
PushScalarCall ==
    \E w \in {SizeUInt16, SizeUInt32} :
        LET k == Len(bufs)
            fits == k > 0 /\ ComBufFits(bufs[k], w)
        IN  /\ pp.pc = "none"
            /\ nextByte + w - 1 <= MaxPushBytes
            /\ Set(IF fits THEN [Cur EXCEPT !.bufs[k].bytes = @ \o Fresh(w)]
                   ELSE Cur)
            /\ pp' = [pc |-> IF fits THEN "done" ELSE "loop",
                      kind |-> "scalar", w |-> w,
                      val |-> Fresh(w), nElem |-> 1,
                      nCopied |-> IF fits THEN 1 ELSE 0,
                      pComBuf |-> NewComBuf, allocated |-> 0, linked |-> 0,
                      entry |-> Cur]
            /\ Reserve(w)
            /\ UNCHANGED <<thr, req, net>>

\* new ( this->comBufMemMgr ) comBuf, the memory manager supplying a buffer
AllocComBuf ==
    /\ pp.pc = "loop"
    /\ pp.nElem > pp.nCopied
    /\ pp' = [pp EXCEPT !.pc = "fill", !.pComBuf = NewComBuf,
                        !.allocated = @ + 1]
    /\ UNCHANGED <<queue, notes, thr, req, net>>

\* new ( this->comBufMemMgr ) comBuf, the memory manager throwing: the push
\* is left at that statement
AllocThrows ==
    /\ pp.pc = "loop"
    /\ pp.nElem > pp.nCopied
    /\ pp' = [pp EXCEPT !.pc = "threw"]
    /\ UNCHANGED <<queue, notes, thr, req, net>>

\* pComBuf->push ( &pVal[nCopied], nElem - nCopied ), nCopied += nNew; for a
\* scalar assert ( pComBuf->push ( val ) )
FillComBuf ==
    /\ pp.pc = "fill"
    /\ LET cb == fillNew(pp.val, pp.w, pp.nCopied)
       IN  pp' = [pp EXCEPT !.pc = "link", !.pComBuf = cb,
                            !.nCopied = advance(@, Len(cb.bytes) \div pp.w)]
    /\ UNCHANGED <<queue, notes, thr, req, net>>

\* this->pushComBuf ( *pComBuf )
LinkComBuf ==
    /\ pp.pc = "link"
    /\ Set(pushComBuf(Cur, pp.pComBuf))
    /\ pp' = [pp EXCEPT !.pc = IF pp.kind = "scalar" THEN "done" ELSE "loop",
                        !.linked = @ + 1]
    /\ UNCHANGED <<notes, thr, req, net>>

\* the loop of the array push ends
PushDone ==
    /\ pp.pc = "loop"
    /\ pp.nElem <= pp.nCopied
    /\ pp' = [pp EXCEPT !.pc = "done"]
    /\ UNCHANGED <<queue, notes, thr, req, net>>

\* the caller has the result or the exception, and may push again
PushReturn ==
    /\ pp.pc \in {"done", "threw"}
    /\ pp' = [pc |-> "none"]
    /\ UNCHANGED <<queue, notes, thr, req, net>>

PushStep == AllocComBuf \/ AllocThrows \/ FillComBuf \/ LinkComBuf \/ PushDone

NextPush ==
    \/ PushArrayCall
    \/ PushScalarCall
    \/ AllocComBuf
    \/ AllocThrows
    \/ FillComBuf
    \/ LinkComBuf
    \/ PushDone
    \/ PushReturn

SpecPush == InitPush /\ [][NextPush]_vars

\* a push that has been called runs on: its statements are not held up
SpecPushFair == SpecPush /\ WF_vars(PushStep)

\* the elements of the push under way that buffers have accepted
Accepted == SubSeq(pp.val, 1, pp.nCopied * pp.w)

C17_TailToppedUpFirst ==
    pp.pc \in {"loop", "fill", "link", "done", "threw"} /\ pp.kind = "array"
    =>  LET e == pp.entry.bufs
            k == Len(e)
        IN  /\ Len(bufs) >= k
            /\ SubSeq(bufs, 1, k - 1) = SubSeq(e, 1, k - 1)
            /\ k > 0 =>
                  bufs[k].bytes =
                      e[k].bytes
                      \o SubSeq(pp.val, 1,
                                pp.w * ComBufAccepts(e[k], pp.w, pp.nElem))
            /\ pp.pc = "fill" =>
                  \/ bufs = <<>>
                  \/ ComBufAccepts(bufs[Len(bufs)], pp.w,
                                   pp.nElem - pp.nCopied) = 0
            /\ pp.nCopied <= pp.nElem
            /\ Concat(e) \o Accepted =
                  Concat(bufs)
                  \o (IF pp.pc = "link" THEN pp.pComBuf.bytes ELSE <<>>)

C17_Witness ==
    /\ pp.pc = "fill"
    /\ pp.kind = "array"
    /\ pp.allocated = 2
    /\ pp.entry.bufs # <<>>
    /\ Len(bufs[Len(pp.entry.bufs)].bytes)
           > Len(pp.entry.bufs[Len(pp.entry.bufs)].bytes)

\* C19: the chunked push ends for every nElem: each buffer allocated accepts
\* at least one element (the width of an element being at most the capacity
\* of a buffer), so nCopied grows at every iteration until it is nElem, and
\* every buffer allocated is linked into the chain.
C19_PushTerminates ==
    /\ [](pp.pc \in {"loop", "done"} =>
            /\ pp.linked = pp.allocated
            /\ Len(bufs) = Len(pp.entry.bufs) + pp.allocated
            /\ pp.nCopied <= pp.nElem)
    /\ [](pp.pc = "done" => pp.nCopied = pp.nElem)
    /\ [][pp.pc = "fill" /\ pp'.pc = "link" =>
            pp'.nCopied > pp.nCopied]_vars
    /\ (Pushing ~> pp.pc \in {"done", "threw"})

C19_Witness ==
    /\ pp.pc = "done"
    /\ pp.kind = "array"
    /\ pp.linked >= 2
    /\ pp.nCopied = pp.nElem

\* ------------------------------------------------------- osdNetIfConf.c
\* the interfaces of one enumeration, and the entries a list is let grow to
MaxIfs == 2

MaxList == 2

Inet(a) == [family |-> "AF_INET", addr |-> a]

\* htonl ( INADDR_LOOPBACK ) and INADDR_ANY as AF_INET addresses
Loopback == Inet("LOOPBACK")

InAddrAny == Inet("ANY")

\* an address of another family
Inet6 == [family |-> "AF_INET6", addr |-> "X"]

\* the null pointer in the place of an address
Null == [family |-> "NULL", addr |-> "NULL"]

\* static osiSockAddr osiLocalAddrResult: zero until the discovery stores it
Unset == [family |-> "AF_UNSPEC", addr |-> "ANY"]

SeqsUpTo(S, n) == UNION {[1..k -> S] : k \in 0..n}

\* an interface of the host as getifaddrs and SIOCGIFCONF give it: ifa_addr
\* or ifr_addr (Null when absent), the flags, whether SIOCGIFFLAGS succeeds
\* for it, and ifa_broadaddr and ifa_dstaddr, which getifaddrs sets for an
\* interface with IFF_BROADCAST and IFF_POINTOPOINT
Ifa(a, f, b, d) ==
    [addr |-> a, flags |-> f, flagsOk |-> TRUE, broadaddr |-> b,
     dstaddr |-> d]

Ifaddrs ==
    { Ifa(Inet("A1"), {"UP", "BROADCAST"}, Inet("B1"), Unset),
      Ifa(Inet("A2"), {"UP", "BROADCAST"}, Inet("B2"), Unset),
      Ifa(Inet("A1"), {"UP", "BROADCAST"}, InAddrAny, Unset),
      Ifa(Inet("A1"), {"UP", "BROADCAST"}, Inet6, Unset),
      Ifa(Inet("A1"), {"UP", "POINTOPOINT"}, Unset, Inet("D1")),
      Ifa(Inet("A1"), {"UP"}, Unset, Unset),
      Ifa(Inet("A1"), {"BROADCAST"}, Inet("B1"), Unset),
      Ifa(Loopback, {"UP", "LOOPBACK"}, Unset, Unset),
      Ifa(Inet6, {"UP", "BROADCAST"}, Inet6, Unset),
      Ifa(Null, {"UP"}, Unset, Unset),
      [Ifa(Inet("A3"), {"UP", "BROADCAST"}, Inet("B3"), Unset)
           EXCEPT !.flagsOk = FALSE] }

\* the addresses a caller asks to match
MatchAddrs ==
    { [family |-> "AF_UNSPEC", addr |-> "ANY"], InAddrAny, Inet("A1"), Loopback,
      Inet6 }

\* one pass of the loop of osiSockDiscoverBroadcastAddresses, had it taken a
\* broadcast address of INADDR_ANY
inspect_zeroBroadcast(st, match, ifa) ==
    IF ifa.addr = Null THEN st
    ELSE LET seen == [st EXCEPT !.inspected = @ + 1]
         IN
    IF ifa.addr.family # "AF_INET" THEN seen
    ELSE IF match.family # "AF_UNSPEC" /\ match.family # "AF_INET" THEN seen
    ELSE IF match.family # "AF_UNSPEC" /\ match.addr # "ANY"
            /\ ifa.addr.addr # match.addr THEN seen
    ELSE IF "UP" \notin ifa.flags THEN seen
    ELSE IF "LOOPBACK" \in ifa.flags THEN seen
    ELSE IF seen.callocs = 0 THEN [seen EXCEPT !.status = "noMemory"]
    ELSE LET got == [seen EXCEPT !.callocs = @ - 1, !.allocated = @ + 1]
         IN
    IF "BROADCAST" \in ifa.flags
    THEN IF ifa.broadaddr.family = "AF_INET"
         THEN [got EXCEPT !.list = Append(@, ifa.broadaddr)]
         ELSE [got EXCEPT !.freed = @ + 1]
    ELSE IF "POINTOPOINT" \in ifa.flags
    THEN [got EXCEPT !.list = Append(@, ifa.dstaddr)]
    ELSE [got EXCEPT !.freed = @ + 1]

\* one pass of the loop of osiSockDiscoverBroadcastAddresses
inspect(st, match, ifa) ==
    IF ifa.addr = Null THEN st
    ELSE LET seen == [st EXCEPT !.inspected = @ + 1]
         IN
    IF ifa.addr.family # "AF_INET" THEN seen
    ELSE IF match.family # "AF_UNSPEC" /\ match.family # "AF_INET" THEN seen
    ELSE IF match.family # "AF_UNSPEC" /\ match.addr # "ANY"
            /\ ifa.addr.addr # match.addr THEN seen
    ELSE IF "UP" \notin ifa.flags THEN seen
    ELSE IF "LOOPBACK" \in ifa.flags THEN seen
    ELSE IF seen.callocs = 0 THEN [seen EXCEPT !.status = "noMemory"]
    ELSE LET got == [seen EXCEPT !.callocs = @ - 1, !.allocated = @ + 1]
         IN
    IF "BROADCAST" \in ifa.flags
    THEN IF ifa.broadaddr.family = "AF_INET" /\ ifa.broadaddr.addr # "ANY"
         THEN [got EXCEPT !.list = Append(@, ifa.broadaddr)]
         ELSE [got EXCEPT !.freed = @ + 1]
    ELSE IF "POINTOPOINT" \in ifa.flags
    THEN [got EXCEPT !.list = Append(@, ifa.dstaddr)]
    ELSE [got EXCEPT !.freed = @ + 1]

\* the loop of osiSockDiscoverBroadcastAddresses from interface i on
RECURSIVE ifLoop(_, _, _, _)
ifLoop(st, match, ifs, i) ==
    IF i > Len(ifs) \/ st.status = "noMemory" THEN st
    ELSE ifLoop(inspect(st, match, ifs[i]), match, ifs, i + 1)

\* osiSockDiscoverBroadcastAddresses: the list afterwards, with the nodes
\* allocated and freed, the interfaces looked at and how the call ended;
\* ok tells whether getifaddrs succeeds, and callocs is the number of nodes
\* the allocator can still supply
osiSockDiscoverBroadcastAddresses(pList, pMatchAddr, ok, ifs, callocs) ==
    LET st == [list |-> pList, allocated |-> 0, freed |-> 0, inspected |-> 0,
               callocs |-> callocs, status |-> "ok"]
    IN  IF pMatchAddr.family = "AF_INET" /\ pMatchAddr.addr = "LOOPBACK"
        THEN IF callocs = 0 THEN [st EXCEPT !.status = "noMemory"]
             ELSE [st EXCEPT !.list = Append(@, Loopback),
                             !.allocated = 1, !.callocs = @ - 1]
        ELSE IF ~ok THEN [st EXCEPT !.status = "getifaddrsFailed"]
        ELSE ifLoop(st, pMatchAddr, ifs, 1)

\* the entries SIOCGIFCONF gives for the interfaces of the host
ifconf(ifs) == SelectSeq(ifs, LAMBDA ifa : ifa.addr # Null)

\* the loop of osiLocalAddrOnce, had it not looked at the flags
RECURSIVE firstUsable_anyFlags(_)
firstUsable_anyFlags(reqs) ==
    IF reqs = <<>> THEN Loopback
    ELSE IF Head(reqs).addr.family # "AF_INET"
         THEN firstUsable_anyFlags(Tail(reqs))
    ELSE Head(reqs).addr

\* the loop of osiLocalAddrOnce and its fall through to fail
RECURSIVE firstUsable(_)
firstUsable(reqs) ==
    IF reqs = <<>> THEN Loopback
    ELSE IF Head(reqs).addr.family # "AF_INET" THEN firstUsable(Tail(reqs))
    ELSE IF ~Head(reqs).flagsOk THEN firstUsable(Tail(reqs))
    ELSE IF "UP" \notin Head(reqs).flags THEN firstUsable(Tail(reqs))
    ELSE IF "LOOPBACK" \in Head(reqs).flags THEN firstUsable(Tail(reqs))
    ELSE Head(reqs).addr

\* osiLocalAddrOnce, had it returned at a failure without the fallback
osiLocalAddrOnce_noFallback(callocOk, ioctlOk, reqs) ==
    IF ~callocOk THEN Unset
    ELSE IF ~ioctlOk \/ reqs = <<>> THEN Unset
    ELSE firstUsable(reqs)

\* osiLocalAddrOnce: the address it stores in osiLocalAddrResult
osiLocalAddrOnce(callocOk, ioctlOk, reqs) ==
    IF ~callocOk THEN Loopback
    ELSE IF ~ioctlOk \/ reqs = <<>> THEN Loopback
    ELSE firstUsable(reqs)

\* the addresses of the interfaces of the host that are AF_INET, up and not
\* loopback
Usable(ifs) ==
    {ifs[i].addr : i \in {j \in 1..Len(ifs) :
                             /\ ifs[j].addr.family = "AF_INET"
                             /\ "UP" \in ifs[j].flags
                             /\ "LOOPBACK" \notin ifs[j].flags}}

\* what the program holds of osdNetIfConf.c before any call:
\* osiLocalAddrResult and osiLocalAddrId, with the interfaces of the host
\* and the list of the caller, empty or with an entry from elsewhere
InitNet ==
    /\ bufs = <<>>
    /\ pFirstUncommited = 0
    /\ nBytesPending = U32(0)
    /\ nextByte = 1
    /\ phase = "idle"
    /\ orphan = FALSE
    /\ atBegin = U32(0)
    /\ msg = <<>>
    /\ committed = <<>>
    /\ sent = <<>>
    /\ last = [op |-> "none", n |-> 0, w |-> 0, made |-> 0, dropped |-> 0]
    /\ thr = [op |-> "none"]
    /\ req = [op |-> "none"]
    /\ pp = [pc |-> "none"]
    /\ \E ifs \in SeqsUpTo(Ifaddrs, MaxIfs),
          list \in SeqsUpTo({Inet("B0")}, 1) :
          net = [pc |-> "net", ifs |-> ifs, list |-> list, id |-> "init",
                 result |-> Unset, runs |-> 0, op |-> "none"]

\* a call of osiSockDiscoverBroadcastAddresses with the caller's list
OsiSockDiscoverBroadcastAddresses ==
    \E match \in MatchAddrs, getifaddrsOk \in BOOLEAN, callocs \in 0..MaxIfs :
        LET st == osiSockDiscoverBroadcastAddresses(net.list, match,
                                                    getifaddrsOk, net.ifs,
                                                    callocs)
        IN  /\ net.pc = "net"
            /\ Len(net.list) < MaxList
            /\ net' = [pc |-> "net", ifs |-> net.ifs, list |-> st.list,
                       id |-> net.id, result |-> net.result,
                       runs |-> net.runs,
                       op |-> "discover", before |-> net.list,
                       match |-> match, getifaddrsOk |-> getifaddrsOk,
                       noMemory |-> st.status = "noMemory",
                       allocated |-> st.allocated, freed |-> st.freed,
                       inspected |-> st.inspected]
            /\ UNCHANGED <<queue, notes, thr, req, pp>>

\* a call of osiLocalAddr by the only thread: epicsThreadOnce runs
\* osiLocalAddrOnce when it has not run, and the result is returned
OsiLocalAddr ==
    \E callocOk \in BOOLEAN, ioctlOk \in BOOLEAN :
        LET first == net.id = "init"
            res == IF first
                   THEN osiLocalAddrOnce(callocOk, ioctlOk, ifconf(net.ifs))
                   ELSE net.result
        IN  /\ net.pc = "net"
            /\ callocOk \/ ioctlOk
            /\ first \/ (callocOk /\ ioctlOk)
            /\ net' = [pc |-> "net", ifs |-> net.ifs, list |-> net.list,
                       id |-> "done", result |-> res,
                       runs |-> IF first THEN net.runs + 1 ELSE net.runs,
                       op |-> "osiLocalAddr", ran |-> first,
                       failed |-> first /\ ~(callocOk /\ ioctlOk
                                             /\ ifconf(net.ifs) # <<>>),
                       returned |-> res]
            /\ UNCHANGED <<queue, notes, thr, req, pp>>

NextNet == OsiSockDiscoverBroadcastAddresses \/ OsiLocalAddr

SpecNet == InitNet /\ [][NextNet]_vars

\* the threads that call osiLocalAddr, and the calls each makes
NThreads == 2

MaxCalls == 2

Threads == 1..NThreads

\* epicsThreadOnce ( &osiLocalAddrId, ... ): what a caller does on finding
\* the id as it is: run the function, wait for the thread running it, or
\* go on
epicsThreadOnce(id) ==
    CASE id = "init" -> "run"
      [] id = "running" -> "wait"
      [] OTHER -> "go"

InitOnce ==
    /\ bufs = <<>>
    /\ pFirstUncommited = 0
    /\ nBytesPending = U32(0)
    /\ nextByte = 1
    /\ phase = "idle"
    /\ orphan = FALSE
    /\ atBegin = U32(0)
    /\ msg = <<>>
    /\ committed = <<>>
    /\ sent = <<>>
    /\ last = [op |-> "none", n |-> 0, w |-> 0, made |-> 0, dropped |-> 0]
    /\ thr = [op |-> "none"]
    /\ req = [op |-> "none"]
    /\ pp = [pc |-> "none"]
    /\ \E ifs \in SeqsUpTo(Ifaddrs, MaxIfs) :
          net = [pc |-> "once", ifs |-> ifs, id |-> "init",
                 result |-> Unset, runs |-> 0,
                 at |-> [t \in Threads |-> "out"],
                 calls |-> [t \in Threads |-> 0],
                 ret |-> [t \in Threads |-> Unset],
                 rets |-> {}]

\* a thread calls osiLocalAddr
CallOsiLocalAddr(t) ==
    /\ net.pc = "once"
    /\ net.at[t] = "out"
    /\ net.calls[t] < MaxCalls
    /\ net' = [net EXCEPT !.at[t] = "once", !.calls[t] = @ + 1]
    /\ UNCHANGED <<queue, notes, thr, req, pp>>

\* epicsThreadOnce: the first caller is given the function to run, a caller
\* arriving while it runs waits, a caller arriving later goes on
OnceEnter(t) ==
    /\ net.pc = "once"
    /\ net.at[t] = "once"
    /\ epicsThreadOnce(net.id) # "wait"
    /\ net' = IF epicsThreadOnce(net.id) = "run"
              THEN [net EXCEPT !.at[t] = "run", !.id = "running"]
              ELSE [net EXCEPT !.at[t] = "return"]
    /\ UNCHANGED <<queue, notes, thr, req, pp>>

\* osiLocalAddrOnce
OsiLocalAddrOnce(t) ==
    \E callocOk \in BOOLEAN, ioctlOk \in BOOLEAN :
        /\ net.pc = "once"
        /\ net.at[t] = "run"
        /\ callocOk \/ ioctlOk
        /\ net' = [net EXCEPT
                     !.at[t] = "ran",
                     !.runs = @ + 1,
                     !.result = osiLocalAddrOnce(callocOk, ioctlOk,
                                                 ifconf(net.ifs))]
        /\ UNCHANGED <<queue, notes, thr, req, pp>>

\* epicsThreadOnce: the function has returned, the id is marked done
OnceLeave(t) ==
    /\ net.pc = "once"
    /\ net.at[t] = "ran"
    /\ net' = [net EXCEPT !.at[t] = "return", !.id = "done"]
    /\ UNCHANGED <<queue, notes, thr, req, pp>>

\* return osiLocalAddrResult
ReturnResult(t) ==
    /\ net.pc = "once"
    /\ net.at[t] = "return"
    /\ net' = [net EXCEPT !.at[t] = "out", !.ret[t] = net.result,
                          !.rets = @ \cup {net.result}]
    /\ UNCHANGED <<queue, notes, thr, req, pp>>

NextOnce ==
    \E t \in Threads :
        \/ CallOsiLocalAddr(t)
        \/ OnceEnter(t)
        \/ OsiLocalAddrOnce(t)
        \/ OnceLeave(t)
        \/ ReturnResult(t)

SpecOnce == InitOnce /\ [][NextOnce]_vars

\* ---------------------------------------------------- claims, discovery
\* the entries the call of osiSockDiscoverBroadcastAddresses put on the list
Appended == SubSeq(net.list, Len(net.before) + 1, Len(net.list))

\* C16 (as stated): the discovery routines degrade to loopback on
\* enumeration failure:
\* osiLocalAddr returns the IPv4 loopback address when the enumeration fails
\* or its memory cannot be obtained, and osiSockDiscoverBroadcastAddresses
\* puts a loopback entry on the list when its enumeration fails.
C16_DegradeToLoopback ==
    /\ net.op = "osiLocalAddr" /\ net.failed => net.returned = Loopback
    /\ net.op = "discover" /\ net.match # Loopback /\ ~net.getifaddrsOk
           => Appended = <<Loopback>>

\* C16 (amended): osiLocalAddr returns the IPv4 loopback address when the
\* enumeration fails or its memory cannot be obtained;
\* osiSockDiscoverBroadcastAddresses, when its enumeration fails, looks at no
\* interface, allocates nothing and leaves the list as it was.
C16_DegradeOrLeaveList ==
    /\ net.op = "osiLocalAddr" /\ net.failed => net.returned = Loopback
    /\ net.op = "discover" /\ net.match # Loopback /\ ~net.getifaddrsOk
           => /\ net.list = net.before
              /\ net.inspected = 0
              /\ net.allocated = 0

C16_Witness ==
    /\ net.op = "discover"
    /\ net.match # Loopback
    /\ ~net.getifaddrsOk
    /\ net.before # <<>>
    /\ net.id = "done"
    /\ net.result = Loopback
    /\ Inet("A1") \in Usable(net.ifs)

\* C18: under any interleaving of the callers osiLocalAddrOnce runs once, no
\* caller returns before the result is stored, and every call returns the
\* same address: that of an interface that is AF_INET, up and not loopback,
\* or the IPv4 loopback address.
C18_DiscoveryRunsOnce ==
    /\ net.runs <= 1
    /\ \A t \in Threads :
          /\ net.at[t] = "return" =>
                net.runs = 1 /\ net.id = "done" /\ net.result # Unset
          /\ net.calls[t] > 0 /\ net.at[t] = "out" =>
                net.runs = 1 /\ net.ret[t] = net.result
    /\ Cardinality(net.rets) <= 1
    /\ net.rets \subseteq Usable(net.ifs) \cup {Loopback}
    /\ net.runs = 1 /\ net.id = "done" =>
          net.result \in Usable(net.ifs) \cup {Loopback}

C18_Witness ==
    /\ \A t \in Threads : net.calls[t] = MaxCalls /\ net.at[t] = "out"
    /\ net.runs = 1
    /\ net.rets = {Inet("A2")}
    /\ Len(net.ifs) = MaxIfs

\* the interface passes the filters of the discovery
Matches(ifa, match) ==
    \/ match.family = "AF_UNSPEC"
    \/ match.family = "AF_INET"
       /\ (match.addr = "ANY" \/ ifa.addr.addr = match.addr)

Passes(ifa, match) ==
    /\ ifa.addr # Null
    /\ ifa.addr.family = "AF_INET"
    /\ "UP" \in ifa.flags
    /\ "LOOPBACK" \notin ifa.flags
    /\ Matches(ifa, match)

\* the entry is the address the discovery is to take from the interface
EntryOf(ifa, e) ==
    \/ /\ "BROADCAST" \in ifa.flags
       /\ e = ifa.broadaddr
       /\ e.family = "AF_INET" /\ e.addr # "ANY"
    \/ /\ "POINTOPOINT" \in ifa.flags
       /\ e = ifa.dstaddr

\* what C20 says of a call whose match address is not the loopback address,
\* and of every call
FilteredOnly ==
    /\ net.match # Loopback =>
          \A k \in 1..Len(Appended) :
              \E i \in 1..Len(net.ifs) :
                  Passes(net.ifs[i], net.match)
                  /\ EntryOf(net.ifs[i], Appended[k])
    /\ SubSeq(net.list, 1, Len(net.before)) = net.before
    /\ net.allocated = net.freed + Len(Appended)

\* C20 (as stated): osiSockDiscoverBroadcastAddresses appends exactly one
\* loopback entry and inspects no interface when the match address is the
\* loopback address; otherwise every entry appended comes from an interface
\* that passes every filter; every node allocated for a rejected interface
\* is freed and no entry is removed from the list.
C20_AppendsOnlyFiltered ==
    net.op = "discover" =>
        /\ net.match = Loopback =>
              Appended = <<Loopback>> /\ net.inspected = 0
        /\ FilteredOnly

\* C20 (amended): as stated, but for a loopback match address one loopback
\* entry is appended when its node can be allocated, and none when it cannot.
C20_AppendsOnlyFilteredOrNothing ==
    net.op = "discover" =>
        /\ net.match = Loopback =>
              /\ Appended = IF net.noMemory THEN <<>> ELSE <<Loopback>>
              /\ net.inspected = 0
        /\ FilteredOnly

C20_Witness ==
    /\ net.op = "discover"
    /\ net.match = Inet("A1")
    /\ net.before # <<>>
    /\ Len(Appended) > 0
    /\ net.freed > 0
    /\ net.inspected = MaxIfs
====
